---- MODULE Spec2Model ----
(***************************************************************************)
(* A model of examples/compare.py: the cold-LLM evaluation harness of the  *)
(* ilo notation experiments.  Six specifications are given.                *)
(*                                                                         *)
(*   Spec       main() driving one test mode: the idea x task x trial      *)
(*              loops, call_haiku's retry loop, scoring, the console       *)
(*              summary and the results file.                              *)
(*   SpecFair   Spec with the thread of control kept running.              *)
(*   SpecMain   main() driving two test modes one after the other.         *)
(*   SpecCheck  the feature checkers as pure functions of an output text,  *)
(*              the text drawn from bounded sets of program lines.         *)
(*   SpecCorpus strip_comments and load_examples as functions of a raw     *)
(*              text and of an idea folder.                                *)
(*   SpecCall   one call of call_haiku on a millisecond clock.             *)
(*                                                                         *)
(* Texts are TLA+ strings, handled as sequences of characters: "in",       *)
(* str.count, str.index and str.lower are computed character by character. *)
(***************************************************************************)
EXTENDS Integers, Sequences, FiniteSets, TLC

VARIABLES
    args,          \* main: the set of test modes asked for on the command line
    n_trials,      \* main: args.n
    mode,          \* the test mode whose run_* function is executing
    pc,            \* position of the single thread of control
    ii,            \* index of the idea being iterated
    ti,            \* index of the task (or comprehension example) being iterated
    trial,         \* trial number of the innermost loop, 1..n_trials
    attempt,       \* call_haiku: loop variable of range(5)
    sleeps,        \* call_haiku: the time.sleep() arguments of the current call, in order
    rules,         \* run_rules_tests / run_full_tests: load_rules(idea)
    examples_text, \* run_test / run_full_tests: the loaded examples
    prompt,        \* the prompt handed to call_haiku
    output,        \* the text call_haiku returned
    all_results,   \* the run log of the executing run_* function
    trial_of,      \* history: the trial number of each entry of all_results
    task_results,  \* results of the current (idea, task)
    fs,            \* the corpus on disk, as far as the run has looked at it
    files,         \* the results files written so far, by mode
    console,       \* the summary printed by the executing run_* function
    error,         \* the exception that ended the run, "" when none
    program,       \* run_comprehension_tests: load_example_file(idea, example_name)
    skipped,       \* the (idea, example) pairs printed as "skipped (no file)"
    summary_file,  \* test-summary.txt as write_summary wrote it, <<>> before
    varied,        \* number of calls that returned another text than the usual one
    calls,         \* history: number of call_haiku calls of the executing run_* function
    retried,       \* history: number of its calls that returned after failed attempts
    chk_kind,      \* SpecCheck: "generation" or "comprehension"
    chk_task,      \* SpecCheck: task or comprehension example name
    chk_text,      \* SpecCheck: the raw output text
    chk_features,  \* SpecCheck: the checker's mapping, <<>> before it ran
    chk_score,     \* SpecCheck: the score string "k/n", "" before the checker ran
    chk_pc,        \* SpecCheck: "input", "checked", or "raised" when the checker raised
    cp_kind,       \* SpecCorpus: "normalize" or "load"
    cp_ext,        \* SpecCorpus: the extension given to strip_comments
    cp_text,       \* SpecCorpus: the raw text given to strip_comments
    cp_once,       \* SpecCorpus: strip_comments(cp_text, cp_ext)
    cp_twice,      \* SpecCorpus: strip_comments(cp_once, cp_ext)
    cp_idea,       \* SpecCorpus: the idea whose folder is loaded
    cp_folder,     \* SpecCorpus: the folder, file name -> raw content
    cp_loaded,     \* SpecCorpus: load_examples(cp_idea)
    cp_pc,         \* SpecCorpus: "input", then "once", "twice" or "loaded"
    tm_pc,         \* SpecCall: "enter", "try", "returned", "raised", "recorded"
    tm_attempt,    \* SpecCall: the loop variable attempt of call_haiku
    tm_clock,      \* SpecCall: time.time(), in milliseconds
    tm_start,      \* SpecCall: the local start of call_haiku
    tm_elapsed,    \* SpecCall: the local elapsed of call_haiku, -1 while unset
    tm_recorded,   \* SpecCall: elapsed_s of the result, in hundredths of a second, -1 while unset
    tm_entry,      \* SpecCall history: the clock when call_haiku was entered
    tm_failed,     \* SpecCall history: time spent inside attempts that raised
    tm_slept       \* SpecCall history: time spent in the backoff sleeps

runvars == <<args, n_trials, mode, pc, ii, ti, trial, attempt, sleeps, rules,
             examples_text, prompt, output, all_results, trial_of, task_results,
             fs, files, console, error, program, skipped, summary_file, varied,
             calls, retried>>
chkvars == <<chk_kind, chk_task, chk_text, chk_features, chk_score, chk_pc>>
corpvars ==
    <<cp_kind, cp_ext, cp_text, cp_once, cp_twice, cp_idea, cp_folder, cp_loaded, cp_pc>>
timevars ==
    <<tm_pc, tm_attempt, tm_clock, tm_start, tm_elapsed, tm_recorded, tm_entry,
      tm_failed, tm_slept>>
vars == <<runvars, chkvars, corpvars, timevars>>

(***************************************************************************)
(* Bounds of the model.                                                    *)
(***************************************************************************)
NumIdeas == 2     \* how many of TESTABLE_IDEAS are iterated
NumTasks == 2     \* how many of TASKS are iterated
MaxTrials == 2    \* n_trials ranges over 0..MaxTrials
MaxAnomalies == 1 \* per run: corpus items found missing, unusual answers, answers after retries
MaxSrcLines == 3  \* pieces a raw text of SpecCorpus is assembled from
NumFiles == 6     \* example files a folder of SpecCorpus may hold
MaxLines == 7     \* lines an output text of SpecCheck is assembled from
MaxLatency == 3   \* an attempt of SpecCall takes 0..MaxLatency steps of LatencyStep ms
LatencyStep == 4  \* milliseconds per step of latency

(***************************************************************************)
(* Python string operations.                                               *)
(***************************************************************************)
Uppers == "ABCDEFGHIJKLMNOPQRSTUVWXYZ"
Lowers == "abcdefghijklmnopqrstuvwxyz"

\* one character of str.lower()
LowerChar(c) ==
    IF \E i \in 1..Len(Uppers) : SubSeq(Uppers, i, i) = c
    THEN LET i == CHOOSE j \in 1..Len(Uppers) : SubSeq(Uppers, j, j) = c
         IN  SubSeq(Lowers, i, i)
    ELSE c

\* t.lower(), halving the text
RECURSIVE lower(_)
lower(t) ==
    IF Len(t) = 0 THEN ""
    ELSE IF Len(t) = 1 THEN LowerChar(t)
    ELSE LET h == Len(t) \div 2
         IN  lower(SubSeq(t, 1, h)) \o lower(SubSeq(t, h + 1, Len(t)))

\* w in t
In(w, t) ==
    \E i \in 1..(Len(t) - Len(w) + 1) : SubSeq(t, i, i + Len(w) - 1) = w

\* t.count(w) for a non-empty w: occurrences counted left to right without
\* overlap, from position i on
RECURSIVE CountFrom(_, _, _)
CountFrom(t, w, i) ==
    LET at == {j \in i..(Len(t) - Len(w) + 1) : SubSeq(t, j, j + Len(w) - 1) = w}
    IN  IF at = {} THEN 0
        ELSE LET first == CHOOSE j \in at : \A k \in at : j <= k
             IN  1 + CountFrom(t, w, first + Len(w))

\* mutant of count: occurrences counted as len(t.split(w))
count_BySplit(t, w) == CountFrom(t, w, 1) + 1

count(t, w) == CountFrom(t, w, 1)

\* t.index(w), 0-based position of the first occurrence; only used when w in t
index(t, w) ==
    (CHOOSE i \in 1..(Len(t) - Len(w) + 1) :
        /\ SubSeq(t, i, i + Len(w) - 1) = w
        /\ \A j \in 1..(i - 1) : SubSeq(t, j, j + Len(w) - 1) # w) - 1

\* str(n) for a natural number
RECURSIVE IntStr(_)
IntStr(n) ==
    IF n < 10 THEN SubSeq("0123456789", n + 1, n + 1)
    ELSE IntStr(n \div 10) \o IntStr(n % 10)

\* sum(features.values()) and len(features)
SumTrue(f) == Cardinality({k \in DOMAIN f : f[k]})
ScoreStr(f) == IntStr(SumTrue(f)) \o "/" \o IntStr(Cardinality(DOMAIN f))

(***************************************************************************)
(* The feature checkers.  Each returns the mapping predicate name -> bool  *)
(* for a text that the caller has already lowercased.                      *)
(***************************************************************************)
\* "err" in text or "error" in text or "catch" in text or "fail" in text
ErrWords(text) ==
    In("err", text) \/ In("error", text) \/ In("catch", text) \/ In("fail", text)

\* sum(1 for w in words if w in text)
Hits(words, text) == Cardinality({i \in DOMAIN words : In(words[i], text)})

\* t.index(w) raises ValueError when w does not occur in t
IndexRaises(t, w) == ~In(w, t)

\* mutant of refund_after_deposit: the positions are compared without the guards
refund_after_deposit_Unguarded(text) ==
    IF IndexRaises(text, "refund") \/ IndexRaises(text, "deposit")
    THEN [raised |-> TRUE, value |-> FALSE]
    ELSE [raised |-> FALSE, value |-> index(text, "refund") > index(text, "deposit")]

\* the evaluation of the refund_after_deposit entry of check_workflow:
\*   (A and B and text.index("refund") > text.index("deposit")) if C else False
\* `raised` tells that the evaluation ended in a ValueError, `value` is its result
refund_after_deposit(text) ==
    IF ~(In("deposit", text) /\ In("refund", text))
    THEN [raised |-> FALSE, value |-> FALSE]
    ELSE IF ~(In("refund", text) /\ In("deposit", text))
    THEN [raised |-> FALSE, value |-> FALSE]
    ELSE IF IndexRaises(text, "refund") \/ IndexRaises(text, "deposit")
    THEN [raised |-> TRUE, value |-> FALSE]
    ELSE [raised |-> FALSE, value |-> index(text, "refund") > index(text, "deposit")]

check_workflow(text) ==
    [ named_transfer |-> In("transfer", text),
      three_inputs |->
          /\ (In("from", text) \/ In("source", text))
          /\ (In("to", text) \/ In("dest", text))
          /\ In("amount", text),
      calls_withdraw |-> In("withdraw", text),
      calls_deposit |-> In("deposit", text),
      handles_withdraw_err |-> In("withdraw", text) /\ ErrWords(text),
      handles_deposit_err |-> In("deposit", text) /\ ErrWords(text),
      compensates_refund |-> In("refund", text),
      refund_after_deposit |-> refund_after_deposit(text).value,
      returns_receipt |->
          /\ (In("receipt", text) \/ In("ok", text) \/ In("return", text))
          /\ (In("from", text) \/ In("source", text)),
      receipt_has_both_ids |->
          /\ Hits(<<"wid", "withdraw", "w-id", "txn1", "tx1">>, text) >= 1
          /\ Hits(<<"did", "deposit", "d-id", "txn2", "tx2">>, text) >= 1 ]

check_data_pipeline(text) ==
    [ named_enrich |-> In("enrich", text),
      takes_orders |-> In("order", text),
      iterates |->
          \/ In("for", text) \/ In("map", text) \/ In("each", text)
          \/ In("yield", text) \/ In("items", text),
      calls_lookup |-> In("lookup", text) /\ In("customer", text),
      handles_lookup_fail |->
          /\ In("lookup", text)
          /\ (\/ In("err", text) \/ In("error", text) \/ In("catch", text)
              \/ In("skip", text) \/ In("fail", text)),
      tier_check |-> In("gold", text) /\ In("silver", text),
      calculates_discount |->
          /\ (In("20", text) \/ In("0.2", text))
          /\ (In("10", text) \/ In("0.1", text)),
      returns_list |->
          \/ In("list", text) \/ In("array", text)
          \/ In("yield", text) \/ In("append", text) \/ In("for", text),
      includes_final_total |-> In("final", text) \/ In("total", text),
      includes_customer_data |-> In("name", text) /\ In("email", text) ]

\* mutant of RejectionCount: the word "reject" is not counted
RejectionCount_NoReject(text) ==
    count(text, "too low") + count(text, "too high") + count(text, "exceed")
    + count(text, "err") + count(text, "error")

\* text.count("too low") + ... + text.count("error")
RejectionCount(text) ==
    count(text, "too low") + count(text, "too high") + count(text, "exceed")
    + count(text, "reject") + count(text, "err") + count(text, "error")

check_decision_logic(text) ==
    [ named_approve |-> In("approve", text),
      four_inputs |->
          /\ In("income", text) /\ In("debt", text)
          /\ In("score", text) /\ In("amount", text),
      credit_check |-> In("500", text) /\ (In("score", text) \/ In("credit", text)),
      debt_ratio |->
          /\ (In("ratio", text) \/ (In("debt", text) /\ In("income", text)))
          /\ (In("0.4", text) \/ In("40", text)),
      max_loan |->
          /\ In("income", text)
          /\ (In("5", text) \/ In("max", text) \/ In("limit", text) \/ In("exceed", text)),
      three_rejections |-> RejectionCount(text) >= 3,
      rate_tiers |-> In("750", text) /\ In("650", text),
      rate_values |->
          /\ (In("3.5", text) \/ In("3.50", text))
          /\ (In("5.0", text) \/ In("5.00", text))
          /\ (In("7.5", text) \/ In("7.50", text)),
      monthly_calc |->
          In("12", text) /\ (In("100", text) \/ In("month", text) \/ In("payment", text)),
      returns_approved |-> In("approv", text) \/ In("ok", text) \/ In("success", text) ]

check_api_orchestration(text) ==
    [ named_deploy |-> In("deploy", text),
      three_inputs |->
          In("service", text) /\ In("version", text) /\ In("environment", text),
      calls_health |-> In("health", text),
      calls_snapshot |-> In("snapshot", text),
      calls_rollout |-> In("roll", text),
      stores_snapshot_id |->
          In("snapshot", text) /\ (In("id", text) \/ In("let", text) \/ In("=", text)),
      handles_rollout_fail |-> In("roll", text) /\ ErrWords(text),
      rollback_on_fail |-> In("restore", text) /\ In("snapshot", text),
      post_deploy_health |-> count(text, "health") >= 2,
      returns_success |->
          /\ (In("ok", text) \/ In("return", text) \/ In("success", text))
          /\ In("version", text) ]

\* COMPREHEND_EXAMPLES["04-tool-interaction"]["checkers"], each applied to t
comprehend_tool_interaction(t) ==
    [ mentions_notify |-> In("notify", t),
      mentions_user_id_input |-> In("user", t) /\ In("id", t),
      mentions_message_input |-> In("message", t),
      calls_get_user |->
          /\ (In("get", t) \/ In("fetch", t) \/ In("lookup", t) \/ In("look", t))
          /\ In("user", t),
      calls_send_email |-> (In("send", t) \/ In("dispatch", t)) /\ In("email", t),
      checks_verified |-> In("verif", t) \/ In("verified", t) \/ In("validation", t),
      handles_errors |->
          In("error", t) \/ In("fail", t) \/ In("err", t) \/ In("exception", t),
      returns_result |->
          In("return", t) \/ In("result", t) \/ In("success", t) \/ In("ok", t) ]

\* COMPREHEND_EXAMPLES["05-workflow"]["checkers"], each applied to t
comprehend_workflow(t) ==
    [ mentions_checkout |-> In("checkout", t) \/ In("check", t),
      mentions_payment_input |-> In("payment", t),
      mentions_items_input |-> In("item", t) \/ In("inventory", t),
      calls_reserve |-> In("reserve", t) \/ In("reservation", t) \/ In("inventory", t),
      calls_charge |-> In("charge", t) \/ In("payment", t),
      compensates_release |->
          In("release", t) \/ In("rollback", t) \/ In("undo", t) \/ In("compensat", t),
      handles_errors |->
          In("error", t) \/ In("fail", t) \/ In("err", t) \/ In("exception", t),
      returns_result |-> In("return", t) \/ In("result", t) \/ In("order", t) ]

\* list(TASKS.keys()) and list(COMPREHEND_EXAMPLES.keys())
AllTaskNames == <<"workflow", "data_pipeline", "decision_logic", "api_orchestration">>
ExampleNames == <<"04-tool-interaction", "05-workflow">>

\* mutant of TASK_CHECKERS: only the predicates that hold are kept in the mapping
TASK_CHECKERS_OnlyTrue(task_name, text) ==
    LET f == CASE task_name = "workflow" -> check_workflow(text)
               [] task_name = "data_pipeline" -> check_data_pipeline(text)
               [] task_name = "decision_logic" -> check_decision_logic(text)
               [] task_name = "api_orchestration" -> check_api_orchestration(text)
    IN  [k \in {x \in DOMAIN f : f[x]} |-> TRUE]

\* TASK_CHECKERS[task_name](text)
TASK_CHECKERS(task_name, text) ==
    CASE task_name = "workflow" -> check_workflow(text)
      [] task_name = "data_pipeline" -> check_data_pipeline(text)
      [] task_name = "decision_logic" -> check_decision_logic(text)
      [] task_name = "api_orchestration" -> check_api_orchestration(text)

\* {k: fn(output_lower) for k, fn in COMPREHEND_EXAMPLES[example_name]["checkers"].items()}
COMPREHEND_CHECKERS(example_name, output_lower) ==
    CASE example_name = "04-tool-interaction" -> comprehend_tool_interaction(output_lower)
      [] example_name = "05-workflow" -> comprehend_workflow(output_lower)

\* features of a generation trial: checker(output.lower())
GenerationFeatures(task_name, out) == TASK_CHECKERS(task_name, lower(out))

\* does checker(text) end in an exception: only str.index can raise
CheckerRaises(task_name, text) ==
    task_name = "workflow" /\ refund_after_deposit(text).raised

\* features of a comprehension trial
ComprehensionFeatures(example_name, out) == COMPREHEND_CHECKERS(example_name, lower(out))

(***************************************************************************)
(* SpecCheck: the checkers applied to bounded sets of output texts.  An    *)
(* output text is a selection of the lines of a small program or           *)
(* explanation written for the task, kept in their order.                  *)
(***************************************************************************)
OutputLines(name) ==
    CASE name = "workflow" ->
            << "transfer from to amount",
               "refund early",
               "w = Withdraw from amount",
               "d = DEPOSIT to amount",
               "on fail: refund from amount",
               "return receipt wid did",
               "deposit again",
               "ok" >>
      [] name = "data_pipeline" ->
            << "enrich orders",
               "for each order",
               "c = lookup-customer customer-id",
               "on err skip",
               "Gold 20 Silver 10",
               "final total",
               "name email",
               "return list" >>
      [] name = "decision_logic" ->
            << "approve income debt score amount",
               "if score < 500 REJECT",
               "if debt / income > 0.4 reject",
               "if amount > income * 5 Reject",
               "rate 3.5 if score > 750 else 5.0 else 7.5",
               "payment amount * rate / 100 / 12",
               "tier 650",
               "ok" >>
      [] name = "api_orchestration" ->
            << "deploy service version environment",
               "health-check service",
               "id = create-snapshot",
               "roll-out version",
               "on err restore-snapshot id",
               "HEALTH-CHECK again",
               "return ok version",
               "fail" >>
      [] name = "04-tool-interaction" ->
            << "The function notify",
               "takes a user id",
               "and a message",
               "It calls get-user",
               "checks Verified",
               "sends email",
               "fails with Error",
               "returns result" >>
      [] name = "05-workflow" ->
            << "Checkout",
               "payment input",
               "items",
               "reserve inventory",
               "charge",
               "release on failure",
               "Error handling",
               "returns order" >>

\* the lines of `lines` whose index is in `mask`, from index i on, one per line
RECURSIVE JoinLines(_, _, _)
JoinLines(lines, mask, i) ==
    IF i > Len(lines) THEN ""
    ELSE IF i \in mask
         THEN lines[i] \o "\n" \o JoinLines(lines, mask, i + 1)
         ELSE JoinLines(lines, mask, i + 1)

\* the output texts SpecCheck draws from, for a task or comprehension example
OutputTexts(name) ==
    LET lines == OutputLines(name)
        n == IF MaxLines < Len(lines) THEN MaxLines ELSE Len(lines)
    IN  {JoinLines(lines, mask, 1) : mask \in SUBSET (1..n)}

TaskSet == {AllTaskNames[i] : i \in DOMAIN AllTaskNames}
ExampleSet == {ExampleNames[i] : i \in DOMAIN ExampleNames}

\* the scoring step of run_test, run_rules_tests and run_full_tests
ScoreGeneration ==
    /\ chk_pc = "input"
    /\ chk_kind = "generation"
    /\ IF CheckerRaises(chk_task, lower(chk_text))
       THEN /\ chk_pc' = "raised"
            /\ UNCHANGED <<chk_features, chk_score>>
       ELSE /\ chk_features' = GenerationFeatures(chk_task, chk_text)
            /\ chk_score' = ScoreStr(chk_features')
            /\ chk_pc' = "checked"
    /\ UNCHANGED <<chk_kind, chk_task, chk_text, runvars, corpvars, timevars>>

\* the scoring step of run_comprehension_tests
ScoreComprehension ==
    /\ chk_pc = "input"
    /\ chk_kind = "comprehension"
    /\ chk_features' = ComprehensionFeatures(chk_task, chk_text)
    /\ chk_score' = ScoreStr(chk_features')
    /\ chk_pc' = "checked"
    /\ UNCHANGED <<chk_kind, chk_task, chk_text, runvars, corpvars, timevars>>

(***************************************************************************)
(* Static configuration of compare.py.                                     *)
(***************************************************************************)
AllTestableIdeas ==
    << "idea1", "idea1-compact", "idea2-tool-calling", "idea3-constrained-decoding",
       "idea4-ast-bytecode", "idea5-workflow-dag", "idea6-mcp-composition",
       "idea7-dense-wire" >>

\* the ideas and tasks the model iterates: the first NumIdeas, the first NumTasks
TESTABLE_IDEAS == SubSeq(AllTestableIdeas, 1, NumIdeas)
ALL_IDEAS == <<"python-baseline">> \o TESTABLE_IDEAS
IDEAS_WITH_RULES == {AllTestableIdeas[i] : i \in DOMAIN AllTestableIdeas}
TaskNames == SubSeq(AllTaskNames, 1, NumTasks)

\* testable = [i for i in TESTABLE_IDEAS if i in IDEAS_WITH_RULES]
InRules(i) == i \in IDEAS_WITH_RULES
testable == SelectSeq(TESTABLE_IDEAS, InRules)

\* main runs the modes in this order: --test, --test-comprehend, --test-rules, --test-full
Modes == <<"examples", "comprehension", "rules", "full">>
ModeSet == {Modes[k] : k \in DOMAIN Modes}
ModeIdx(m) == IF m \in ModeSet THEN CHOOSE k \in DOMAIN Modes : Modes[k] = m ELSE 0

\* the idea list and the inner list a mode's run_* function iterates
IdeasOf(m) ==
    CASE m = "examples" -> TESTABLE_IDEAS
      [] m = "comprehension" -> ALL_IDEAS
      [] OTHER -> testable
UnitsOf(m) == IF m = "comprehension" THEN ExampleNames ELSE TaskNames

SeqSet(q) == {q[i] : i \in DOMAIN q}

\* FOLDERS[idea][0]
Ext(idea) ==
    CASE idea = "python-baseline" -> ".py"
      [] idea \in {"idea1", "idea1-compact", "idea7-dense-wire"} -> ".ilo"
      [] idea = "idea4-ast-bytecode" -> ".ast"
      [] idea = "idea5-workflow-dag" -> ".yaml"
      [] OTHER -> ".json"

\* first line of TASKS[task_name]["desc"]
TaskDesc(task_name) ==
    CASE task_name = "workflow" -> "Write a program called transfer"
      [] task_name = "data_pipeline" -> "Write a program called enrich"
      [] task_name = "decision_logic" -> "Write a program called approve"
      [] task_name = "api_orchestration" -> "Write a program called deploy"

\* the prompt templates, .format() applied; the fixed text is shortened
TEST_PROMPT(examples, task) ==
    "You are being given ONE example of a programming format.\n\n" \o examples
    \o "\n\nTask:\n" \o task \o "\n\nOutput ONLY the code."

FULL_PROMPT(rls, examples, task) ==
    "You are being given the specification and examples.\n\n## Language Specification\n\n"
    \o rls \o "\n\n## Examples\n\n" \o examples
    \o "\n\nTask:\n" \o task \o "\n\nOutput ONLY the code."

RULES_PROMPT(rls, task) ==
    "You are being given the specification.\n\n" \o rls
    \o "\n\nTask:\n" \o task \o "\n\nOutput ONLY the code."

COMPREHEND_PROMPT(prog) ==
    "Here is a program written in a custom format.\n\n" \o prog
    \o "\n\nWhat does this program do?"

(***************************************************************************)
(* strip_comments and the example loaders as functions of a folder.        *)
(***************************************************************************)
\* the characters str.splitlines breaks a text at ("\r\n" counts as one break)
LineBreaks == {"\n", "\r", "\f"}
\* the characters str.strip removes at both ends
WhiteSpace == {" ", "\t", "\n", "\r", "\f"}

\* text.splitlines()
RECURSIVE splitlines(_)
splitlines(t) ==
    IF t = "" THEN <<>>
    ELSE LET at == {j \in 1..Len(t) : SubSeq(t, j, j) \in LineBreaks}
         IN  IF at = {} THEN <<t>>
             ELSE LET j == CHOOSE a \in at : \A b \in at : a <= b
                      n == IF j < Len(t) /\ SubSeq(t, j, j + 1) = "\r\n" THEN 2 ELSE 1
                  IN  <<SubSeq(t, 1, j - 1)>> \o splitlines(SubSeq(t, j + n, Len(t)))

\* line.strip()
strip(l) ==
    LET ink == {j \in 1..Len(l) : SubSeq(l, j, j) \notin WhiteSpace}
    IN  IF ink = {} THEN ""
        ELSE SubSeq(l, CHOOSE a \in ink : \A b \in ink : a <= b,
                       CHOOSE a \in ink : \A b \in ink : a >= b)

\* s.startswith(p)
startswith(s, p) == Len(p) <= Len(s) /\ SubSeq(s, 1, Len(p)) = p

\* s.endswith(p)
endswith(s, p) == Len(p) <= Len(s) /\ SubSeq(s, Len(s) - Len(p) + 1, Len(s)) = p

\* sep.join(parts)
RECURSIVE join(_, _)
join(sep, parts) ==
    IF parts = <<>> THEN ""
    ELSE IF Len(parts) = 1 THEN parts[1]
    ELSE parts[1] \o sep \o join(sep, Tail(parts))

\* COMMENT_PREFIXES.get(ext); "" stands for None
COMMENT_PREFIXES(ext) ==
    CASE ext = ".ilo" -> "--"
      [] ext = ".py" -> "#"
      [] ext = ".yaml" -> "#"
      [] ext = ".ast" -> ";"
      [] OTHER -> ""

\* the lines strip_comments keeps
KeptLine(line, prefix) ==
    /\ strip(line) # ""
    /\ ~(prefix # "" /\ startswith(strip(line), prefix))

\* mutant of strip_comments: the kept lines are appended stripped
strip_comments_Trimmed(text, ext) ==
    LET prefix == COMMENT_PREFIXES(ext)
        Keep(line) == KeptLine(line, prefix)
        kept == SelectSeq(splitlines(text), Keep)
    IN  join("\n", [i \in DOMAIN kept |-> strip(kept[i])])

\* strip_comments(text, ext)
strip_comments(text, ext) ==
    LET prefix == COMMENT_PREFIXES(ext)
        Keep(line) == KeptLine(line, prefix)
    IN  join("\n", SelectSeq(splitlines(text), Keep))

\* fnmatch of a file name against the pattern pre*ext
fnmatch(name, pre, ext) ==
    /\ Len(name) >= Len(pre) + Len(ext)
    /\ startswith(name, pre)
    /\ endswith(name, ext)

\* mutant of glob_first: every numbered example file is matched
glob_first_AnyNumber(folder, ext) == {n \in DOMAIN folder : fnmatch(n, "0", ext)}

\* folder.glob(f"01-*{ext}"): the matching names of the folder
glob_first(folder, ext) == {n \in DOMAIN folder : fnmatch(n, "01-", ext)}

\* folder.glob(f"*{ext}")
glob_all(folder, ext) == {n \in DOMAIN folder : fnmatch(n, "", ext)}

\* the file names the model knows, in the order sorted() puts them
NameOrder ==
    << "01-simple-function.ilo", "01-simple-function.py", "01-variant.ilo",
       "02-with-dependencies.ilo", "03-data-transform.ilo",
       "04-tool-interaction.ilo", "05-workflow.ilo" >>

\* sorted(names)
sorted(names) == LET Keep(n) == n \in names IN SelectSeq(NameOrder, Keep)

\* the parts list of load_examples / load_all_examples over the sorted matches
RECURSIVE ExampleParts(_, _, _)
ExampleParts(folder, names, ext) ==
    IF names = <<>> THEN <<>>
    ELSE LET cleaned == strip_comments(folder[Head(names)], ext)
             rest == ExampleParts(folder, Tail(names), ext)
         IN  IF strip(cleaned) # ""
             THEN <<"Example (" \o Head(names) \o "):\n" \o cleaned>> \o rest
             ELSE rest

\* load_examples(idea) on a given folder
load_examples_in(folder, idea) ==
    join("\n\n", ExampleParts(folder, sorted(glob_first(folder, Ext(idea))), Ext(idea)))

\* load_all_examples(idea) on a given folder
load_all_examples_in(folder, idea) ==
    join("\n\n", ExampleParts(folder, sorted(glob_all(folder, Ext(idea))), Ext(idea)))

(***************************************************************************)
(* The corpus on disk.  fs[<<idea, item>>] is "?" until the run looks at   *)
(* the item, then "yes" or "no" for good.  Items: "01" a non-blank 01-*    *)
(* example file, "04-tool-interaction" and "05-workflow" those example     *)
(* files, "any" some non-blank example file, "README" a non-empty README.  *)
(***************************************************************************)
FileItems == {"01", "04-tool-interaction", "05-workflow"}
Items == FileItems \cup {"any", "README"}
FsKeys == SeqSet(ALL_IDEAS) \X Items

NumMissing(f) == Cardinality({k \in FsKeys : f[k] = "no"})

\* can a look at the item find it (found = TRUE) or miss it (FALSE), f being what
\* the run has seen of the corpus before
CanResolve(f, idea, item, found) ==
    IF f[<<idea, item>>] # "?"
    THEN found = (f[<<idea, item>>] = "yes")
    ELSE /\ ~found => NumMissing(f) + varied + retried < MaxAnomalies
         /\ (item \in FileItems /\ found) => f[<<idea, "any">>] # "no"
         /\ (item = "any" /\ ~found) => \A x \in FileItems : f[<<idea, x>>] # "yes"

Resolved(f, idea, item, found) ==
    [f EXCEPT ![<<idea, item>>] = IF found THEN "yes" ELSE "no"]

\* load_examples(idea): the 01-* example, or "" when there is none
load_examples(idea, found) ==
    IF found
    THEN "Example (01-simple-function" \o Ext(idea) \o "):\nsimple function in " \o idea
    ELSE ""

\* load_all_examples(idea): every example of the folder, or "" when there is none
load_all_examples(idea, found) ==
    IF found THEN "Example (all of " \o idea \o "):\nprograms in " \o idea ELSE ""

\* load_example_file(idea, example_name): the cleaned file, or ""
load_example_file(idea, example_name, found) ==
    IF found THEN example_name \o " in " \o idea ELSE ""

\* load_rules(idea): the README, or "" when there is none
load_rules(idea, found) == IF found THEN "Rules of " \o idea ELSE ""

(***************************************************************************)
(* The generation service.                                                 *)
(***************************************************************************)
\* texts the service answers with: a usual program, and other texts
RunTexts ==
    << "Transfer from to amount\nwithdraw ? err\ndeposit ? refund\nreturn receipt",
       "" >>

\* the service may answer with RunTexts[k] at the given attempt of a call: an
\* unusual text and an answer after failed attempts both count as anomalies
CanAnswer(k, att) ==
    NumMissing(fs) + varied + retried
        + (IF k = 1 THEN 0 ELSE 1) + (IF att = 0 THEN 0 ELSE 1) <= MaxAnomalies

\* mutant of Pow2: the wait grows linearly
PowLinear(n) == n + 1

RECURSIVE Pow2(_)
Pow2(n) == IF n = 0 THEN 1 ELSE 2 * Pow2(n - 1)

MaxAttempts == 5

(***************************************************************************)
(* Results, averages and summaries.                                        *)
(***************************************************************************)
\* the features of the texts the service answers with, evaluated once
RunTextSet == {RunTexts[k] : k \in DOMAIN RunTexts}
RECURSIVE GenerationRows(_)
GenerationRows(keys) ==
    IF keys = {} THEN <<>>
    ELSE LET k == CHOOSE x \in keys : TRUE
         IN  (k :> GenerationFeatures(k[1], k[2])) @@ GenerationRows(keys \ {k})
RECURSIVE ComprehensionRows(_)
ComprehensionRows(keys) ==
    IF keys = {} THEN <<>>
    ELSE LET k == CHOOSE x \in keys : TRUE
         IN  (k :> ComprehensionFeatures(k[1], k[2])) @@ ComprehensionRows(keys \ {k})
RECURSIVE RaisesRows(_)
RaisesRows(keys) ==
    IF keys = {} THEN <<>>
    ELSE LET k == CHOOSE x \in keys : TRUE
         IN  (k :> CheckerRaises(k[1], lower(k[2]))) @@ RaisesRows(keys \ {k})
GenerationTable == GenerationRows(TaskSet \X RunTextSet)
GenerationRaises == RaisesRows(TaskSet \X RunTextSet)
ComprehensionTable == ComprehensionRows(ExampleSet \X RunTextSet)

\* mutant of Result: the checker is given the output as returned, not lowercased
Result_ScoresRaw(m, idea, unit, out) ==
    IF m = "comprehension"
    THEN LET features == COMPREHEND_CHECKERS(unit, out)
         IN  [idea |-> idea, test_type |-> "comprehension", example |-> unit,
              output |-> out, features |-> features, score |-> ScoreStr(features)]
    ELSE LET features == TASK_CHECKERS(unit, out)
         IN  [idea |-> idea, test_type |-> m, task |-> unit,
              output |-> out, features |-> features, score |-> ScoreStr(features)]

\* the result dict of one trial
Result(m, idea, unit, out) ==
    IF m = "comprehension"
    THEN LET features == ComprehensionTable[<<unit, out>>]
         IN  [idea |-> idea, test_type |-> "comprehension", example |-> unit,
              output |-> out, features |-> features, score |-> ScoreStr(features)]
    ELSE LET features == GenerationTable[<<unit, out>>]
         IN  [idea |-> idea, test_type |-> m, task |-> unit,
              output |-> out, features |-> features, score |-> ScoreStr(features)]

\* r["task"] of a generation result, r["example"] of a comprehension result
UnitOf(r) == IF "task" \in DOMAIN r THEN r.task ELSE r.example

\* [r for r in results if r["idea"] == idea]
ByIdea(results, idea) ==
    LET Keep(r) == r.idea = idea IN SelectSeq(results, Keep)

\* [r for r in results if r["idea"] == idea and r["task"] == unit]
ByIdeaUnit(results, idea, unit) ==
    LET Keep(r) == r.idea = idea /\ UnitOf(r) = unit IN SelectSeq(results, Keep)

\* sum(sum(r["features"].values()) for r in results)
RECURSIVE SumScores(_)
SumScores(results) ==
    IF results = <<>> THEN 0
    ELSE SumTrue(Head(results).features) + SumScores(Tail(results))

\* what a summary shows for a list of results: the average sum/n when the list is
\* not empty, else the marker `nodata` ("omitted": no row or cell is printed)
Cell(results, nodata) ==
    IF Len(results) = 0
    THEN [kind |-> nodata, sum |-> 0, n |-> 0]
    ELSE [kind |-> "avg", sum |-> SumScores(results), n |-> Len(results)]

\* len(list(COMPREHEND_EXAMPLES.values())[0]["checkers"])
max_score == Cardinality(DOMAIN comprehend_tool_interaction(""))

\* mutant of Denominator: every summary prints the fixed /10
Denominator_AlwaysTen(m) == 10

\* the denominator a summary prints after the average score
Denominator(m) == IF m = "comprehension" THEN max_score ELSE 10

\* run_tests divides by len(idea_results) and len(task_results) unguarded
SummaryDivByZero(m, results) ==
    /\ m = "examples"
    /\ \/ \E i \in SeqSet(IdeasOf(m)) : ByIdea(results, i) = <<>>
       \/ \E i \in SeqSet(IdeasOf(m)), u \in SeqSet(UnitsOf(m)) :
              ByIdeaUnit(results, i, u) = <<>>

\* the summary a run_* function prints after its loops
ConsoleSummary(m, results) ==
    [ printed |-> TRUE,
      denom |-> Denominator(m),
      rows |-> [i \in SeqSet(IdeasOf(m)) |-> Cell(ByIdea(results, i), "omitted")],
      cells |-> [k \in SeqSet(IdeasOf(m)) \X SeqSet(UnitsOf(m)) |->
                    Cell(ByIdeaUnit(results, k[1], k[2]), "skip")] ]

NoConsole == [printed |-> FALSE, denom |-> 0, rows |-> <<>>, cells |-> <<>>]

\* a results file: not looked at yet ("?"), absent ("no"), or the JSON list of results
UnknownFile == [exists |-> "?", results |-> <<>>]
NoFile == [exists |-> "no", results |-> <<>>]
OldFile(m) ==
    [exists |-> "yes",
     results |-> << Result(m, "idea1", UnitsOf(m)[1], "") >>]

\* the results files as write_summary finds them: a file the invocation has not
\* written is absent, or left by an earlier invocation
FilesRead(old) ==
    [m \in ModeSet |->
        IF files[m].exists # "?" THEN files[m]
        ELSE IF old THEN OldFile(m) ELSE NoFile]

\* the ideas write_summary passes for a mode's table
SummaryIdeas(m) == IdeasOf(m)

\* one table of test-summary.txt: summarise_generation, or the comprehension table
SummaryTable(m, f) ==
    IF f.exists # "yes" \/ f.results = <<>>
    THEN [present |-> FALSE, denom |-> 0, rows |-> <<>>, cells |-> <<>>]
    ELSE [ present |-> TRUE,
           denom |-> Denominator(m),
           rows |-> [i \in SeqSet(SummaryIdeas(m)) |->
                        Cell(ByIdea(f.results, i), "omitted")],
           cells |-> [k \in SeqSet(SummaryIdeas(m)) \X SeqSet(UnitsOf(m)) |->
                        IF ByIdea(f.results, k[1]) = <<>>
                        THEN Cell(<<>>, "omitted")
                        ELSE Cell(ByIdeaUnit(f.results, k[1], k[2]), "dash")] ]

\* test-summary.txt as write_summary builds it from the results files
write_summary(disk) ==
    [written |-> TRUE, tables |-> [m \in ModeSet |-> SummaryTable(m, disk[m])]]

NoSummary == [written |-> FALSE, tables |-> <<>>]

(***************************************************************************)
(* Spec: main() and the run_* functions.                                   *)
(***************************************************************************)
\* the "Total API calls" figure a run_* function prints at its head
total_tests(m, n) == Len(IdeasOf(m)) * Len(UnitsOf(m)) * n

CurIdea == IdeasOf(mode)[ii]
CurUnit == UnitsOf(mode)[ti]

\* the modes main has still to run, as indexes of Modes
NextModes == {k \in DOMAIN Modes : k > ModeIdx(mode) /\ Modes[k] \in args}
MinOf(S) == CHOOSE k \in S : \A j \in S : k <= j

TimeIdle ==
    /\ tm_pc = "off" /\ tm_attempt = 0 /\ tm_clock = 0 /\ tm_start = 0
    /\ tm_elapsed = -1 /\ tm_recorded = -1 /\ tm_entry = 0 /\ tm_failed = 0 /\ tm_slept = 0

CorpIdle ==
    /\ cp_kind = "" /\ cp_ext = "" /\ cp_text = "" /\ cp_once = "" /\ cp_twice = ""
    /\ cp_idea = "" /\ cp_folder = <<>> /\ cp_loaded = "" /\ cp_pc = "off"

ChkIdle ==
    /\ chk_kind = "" /\ chk_task = "" /\ chk_text = ""
    /\ chk_features = <<>> /\ chk_score = "" /\ chk_pc = "off"

Init ==
    /\ args \in {{m} : m \in ModeSet}
    /\ n_trials \in 0..MaxTrials
    /\ mode = "" /\ pc = "main"
    /\ ii = 0 /\ ti = 0 /\ trial = 0
    /\ attempt = 0 /\ sleeps = <<>>
    /\ rules = "" /\ examples_text = "" /\ program = ""
    /\ prompt = "" /\ output = ""
    /\ all_results = <<>> /\ trial_of = <<>> /\ task_results = <<>>
    /\ fs = [k \in FsKeys |-> "?"]
    /\ files = [m \in ModeSet |-> UnknownFile]
    /\ console = NoConsole /\ summary_file = NoSummary
    /\ skipped = {} /\ error = "" /\ varied = 0
    /\ calls = 0 /\ retried = 0
    /\ ChkIdle
    /\ CorpIdle
    /\ TimeIdle

\* main: the next requested run_* function starts: get_client(), then the header
StartMode ==
    /\ pc = "main"
    /\ NextModes # {}
    /\ mode' = Modes[MinOf(NextModes)]
    /\ \E client_ok \in BOOLEAN :
          IF client_ok
          THEN /\ pc' = "idea"
               /\ error' = error
          ELSE /\ pc' = "exit"          \* get_client: sys.exit(1)
               /\ error' = "SystemExit"
    /\ ii' = 1 /\ ti' = 0 /\ trial' = 0
    /\ all_results' = <<>> /\ trial_of' = <<>> /\ task_results' = <<>>
    /\ console' = NoConsole /\ skipped' = {}
    /\ calls' = 0 /\ retried' = 0
    /\ UNCHANGED <<args, n_trials, attempt, sleeps, rules, examples_text, program,
                   prompt, output, fs, files, summary_file, varied, chkvars, corpvars, timevars>>

\* top of the loop over ideas
EnterIdea ==
    /\ pc = "idea"
    /\ IF ii > Len(IdeasOf(mode))
       THEN /\ pc' = "summary"
            /\ UNCHANGED <<ii, ti, rules, examples_text, fs>>
       ELSE CASE mode = "rules" ->
                   \E found \in BOOLEAN :
                      /\ CanResolve(fs, CurIdea, "README", found)
                      /\ fs' = Resolved(fs, CurIdea, "README", found)
                      /\ rules' = load_rules(CurIdea, found)
                      /\ IF rules' = ""
                         THEN pc' = "idea" /\ ii' = ii + 1 /\ ti' = ti   \* continue
                         ELSE pc' = "task" /\ ii' = ii /\ ti' = 1
                      /\ UNCHANGED examples_text
              [] mode = "full" ->
                   \E found_rules \in BOOLEAN, found_examples \in BOOLEAN :
                      /\ CanResolve(fs, CurIdea, "README", found_rules)
                      /\ CanResolve(Resolved(fs, CurIdea, "README", found_rules),
                                    CurIdea, "any", found_examples)
                      /\ fs' = Resolved(Resolved(fs, CurIdea, "README", found_rules),
                                        CurIdea, "any", found_examples)
                      /\ rules' = load_rules(CurIdea, found_rules)
                      /\ examples_text' = load_all_examples(CurIdea, found_examples)
                      /\ pc' = "task" /\ ii' = ii /\ ti' = 1
              [] OTHER ->
                   /\ pc' = "task" /\ ti' = 1
                   /\ UNCHANGED <<ii, rules, examples_text, fs>>
    /\ UNCHANGED <<args, n_trials, mode, trial, attempt, sleeps, program, prompt, output,
                   all_results, trial_of, task_results, files, console, error, skipped,
                   summary_file, varied, chkvars, corpvars, timevars,
                   calls, retried>>

\* top of the loop over tasks (comprehension: over examples, loading the program)
EnterTask ==
    /\ pc = "task"
    /\ IF ti > Len(UnitsOf(mode))
       THEN /\ pc' = "idea" /\ ii' = ii + 1
            /\ UNCHANGED <<ti, trial, task_results, program, fs, skipped>>
       ELSE IF mode = "comprehension"
       THEN \E found \in BOOLEAN :
               /\ CanResolve(fs, CurIdea, CurUnit, found)
               /\ fs' = Resolved(fs, CurIdea, CurUnit, found)
               /\ program' = load_example_file(CurIdea, CurUnit, found)
               /\ IF program' = ""
                  THEN /\ skipped' = skipped \cup {<<CurIdea, CurUnit>>}
                       /\ pc' = "task" /\ ti' = ti + 1          \* continue
                       /\ UNCHANGED trial
                  ELSE /\ pc' = "INIT" /\ trial' = 1
                       /\ UNCHANGED <<ti, skipped>>
               /\ UNCHANGED <<ii, task_results>>
       ELSE /\ pc' = "INIT" /\ trial' = 1
            /\ task_results' = <<>>
            /\ UNCHANGED <<ii, ti, program, fs, skipped>>
    /\ UNCHANGED <<args, n_trials, mode, attempt, sleeps, rules, examples_text, prompt,
                   output, all_results, trial_of, files, console, error, summary_file,
                   varied, chkvars, corpvars, timevars,
                   calls, retried>>

\* mutant of BuildPrompt: the prompt of the next trial is built as soon as the
\* call has returned, before its result is recorded
BuildPrompt_Eager ==
    /\ pc \in {"INIT", "RETURNED"}
    /\ trial <= n_trials
    /\ CASE mode = "examples" ->
              \E found \in BOOLEAN :
                 /\ CanResolve(fs, CurIdea, "01", found)
                 /\ fs' = Resolved(fs, CurIdea, "01", found)
                 /\ examples_text' = load_examples(CurIdea, found)
                 /\ prompt' = TEST_PROMPT(examples_text', TaskDesc(CurUnit))
         [] mode = "rules" ->
              /\ prompt' = RULES_PROMPT(rules, TaskDesc(CurUnit))
              /\ UNCHANGED <<fs, examples_text>>
         [] mode = "full" ->
              /\ prompt' = FULL_PROMPT(rules, examples_text, TaskDesc(CurUnit))
              /\ UNCHANGED <<fs, examples_text>>
         [] mode = "comprehension" ->
              /\ prompt' = COMPREHEND_PROMPT(program)
              /\ UNCHANGED <<fs, examples_text>>
    /\ pc' = "PROMPT_BUILT"
    /\ UNCHANGED <<args, n_trials, mode, ii, ti, trial, attempt, sleeps, rules, program,
                   output, all_results, trial_of, task_results, files, console, error,
                   skipped, summary_file, varied, chkvars, corpvars, timevars,
                   calls, retried>>

\* a trial starts: the prompt is assembled (run_test loads the example first)
BuildPrompt ==
    /\ pc = "INIT"
    /\ trial <= n_trials
    /\ CASE mode = "examples" ->
              \E found \in BOOLEAN :
                 /\ CanResolve(fs, CurIdea, "01", found)
                 /\ fs' = Resolved(fs, CurIdea, "01", found)
                 /\ examples_text' = load_examples(CurIdea, found)
                 /\ prompt' = TEST_PROMPT(examples_text', TaskDesc(CurUnit))
         [] mode = "rules" ->
              /\ prompt' = RULES_PROMPT(rules, TaskDesc(CurUnit))
              /\ UNCHANGED <<fs, examples_text>>
         [] mode = "full" ->
              /\ prompt' = FULL_PROMPT(rules, examples_text, TaskDesc(CurUnit))
              /\ UNCHANGED <<fs, examples_text>>
         [] mode = "comprehension" ->
              /\ prompt' = COMPREHEND_PROMPT(program)
              /\ UNCHANGED <<fs, examples_text>>
    /\ pc' = "PROMPT_BUILT"
    /\ UNCHANGED <<args, n_trials, mode, ii, ti, trial, attempt, sleeps, rules, program,
                   output, all_results, trial_of, task_results, files, console, error,
                   skipped, summary_file, varied, chkvars, corpvars, timevars,
                   calls, retried>>

\* mutant of IssueCall: the retry budget is shared, a call starts where the
\* failures of the earlier calls left the counter
IssueCall_SharedBudget ==
    /\ pc = "PROMPT_BUILT"
    /\ attempt' = retried
    /\ sleeps' = SubSeq(<<1, 2, 4, 8>>, 1, retried)
    /\ calls' = calls + 1
    /\ pc' = "CALL_ISSUED"
    /\ UNCHANGED <<args, n_trials, mode, ii, ti, trial, rules, examples_text, program,
                   prompt, output, all_results, trial_of, task_results, fs, files,
                   console, error, skipped, summary_file, varied, chkvars, corpvars, timevars,
                   retried>>

\* call_haiku is entered: the first attempt is sent
IssueCall ==
    /\ pc = "PROMPT_BUILT"
    /\ attempt' = 0
    /\ sleeps' = <<>>
    /\ calls' = calls + 1
    /\ pc' = "CALL_ISSUED"
    /\ UNCHANGED <<args, n_trials, mode, ii, ti, trial, rules, examples_text, program,
                   prompt, output, all_results, trial_of, task_results, fs, files,
                   console, error, skipped, summary_file, varied, chkvars, corpvars, timevars,
                   retried>>

\* mutant of AttemptSucceeds: the backoff sleep is taken after a success too
AttemptSucceeds_ThenSleeps ==
    /\ pc = "CALL_ISSUED"
    /\ \E k \in DOMAIN RunTexts :
          /\ CanAnswer(k, attempt)
          /\ output' = RunTexts[k]
          /\ varied' = IF k = 1 THEN varied ELSE varied + 1
    /\ sleeps' = Append(sleeps, Pow2(attempt))
    /\ retried' = IF attempt = 0 THEN retried ELSE retried + 1
    /\ pc' = "RETURNED"
    /\ UNCHANGED <<args, n_trials, mode, ii, ti, trial, attempt, rules,
                   examples_text, program, prompt, all_results, trial_of, task_results,
                   fs, files, console, error, skipped, summary_file, chkvars, corpvars, timevars,
                   calls>>

\* call_haiku: the attempt in flight returns a text, which call_haiku returns
AttemptSucceeds ==
    /\ pc = "CALL_ISSUED"
    /\ \E k \in DOMAIN RunTexts :
          /\ CanAnswer(k, attempt)
          /\ output' = RunTexts[k]
          /\ varied' = IF k = 1 THEN varied ELSE varied + 1
    /\ retried' = IF attempt = 0 THEN retried ELSE retried + 1
    /\ pc' = "RETURNED"
    /\ UNCHANGED <<args, n_trials, mode, ii, ti, trial, attempt, sleeps, rules,
                   examples_text, program, prompt, all_results, trial_of, task_results,
                   fs, files, console, error, skipped, summary_file, chkvars, corpvars, timevars,
                   calls>>

\* mutant of AttemptFails: the last failure is swallowed and the loops go on
AttemptFails_Skips ==
    /\ pc = "CALL_ISSUED"
    /\ IF attempt < MaxAttempts - 1
       THEN /\ sleeps' = Append(sleeps, Pow2(attempt))
            /\ attempt' = attempt + 1
            /\ pc' = "CALL_ISSUED"
       ELSE /\ pc' = "SCORED"
            /\ attempt' = 0
            /\ sleeps' = <<>>
    /\ UNCHANGED <<args, n_trials, mode, ii, ti, trial, rules, examples_text,
                   program, prompt, output, all_results, trial_of, task_results, fs,
                   files, console, error, skipped, summary_file, varied, chkvars, corpvars, timevars,
                   calls, retried>>

\* mutant of AttemptFails: the fifth failure is caught, the results so far are
\* saved and main goes on
AttemptFails_SavesPartial ==
    /\ pc = "CALL_ISSUED"
    /\ IF attempt < MaxAttempts - 1
       THEN /\ sleeps' = Append(sleeps, Pow2(attempt))
            /\ attempt' = attempt + 1
            /\ pc' = "CALL_ISSUED"
            /\ error' = error
       ELSE /\ pc' = "main"
            /\ error' = "CallFailure"
            /\ UNCHANGED <<sleeps, attempt>>
    /\ files' = IF attempt < MaxAttempts - 1 THEN files
                ELSE [files EXCEPT ![mode] = [exists |-> "yes", results |-> all_results]]
    /\ UNCHANGED <<args, n_trials, mode, ii, ti, trial, rules, examples_text,
                   program, prompt, output, all_results, trial_of, task_results, fs,
                   console, skipped, summary_file, varied, chkvars, corpvars, timevars,
                   calls, retried>>

\* mutant of AttemptFails: after the fifth failure the retry loop starts over
AttemptFails_Restarts ==
    /\ pc = "CALL_ISSUED"
    /\ IF attempt < MaxAttempts - 1
       THEN /\ sleeps' = Append(sleeps, Pow2(attempt))
            /\ attempt' = attempt + 1
            /\ pc' = "CALL_ISSUED"
            /\ error' = error
       ELSE /\ sleeps' = <<>>
            /\ attempt' = 0
            /\ pc' = "CALL_ISSUED"
            /\ error' = error
    /\ UNCHANGED <<args, n_trials, mode, ii, ti, trial, rules, examples_text,
                   program, prompt, output, all_results, trial_of, task_results, fs,
                   files, console, skipped, summary_file, varied, chkvars, corpvars, timevars,
                   calls, retried>>

\* call_haiku: the attempt in flight raises.  Before the last attempt the handler
\* sleeps 2 ** attempt seconds and the loop sends the next attempt; the last
\* attempt's exception is re-raised and nothing catches it
AttemptFails ==
    /\ pc = "CALL_ISSUED"
    /\ IF attempt < MaxAttempts - 1
       THEN /\ sleeps' = Append(sleeps, Pow2(attempt))
            /\ attempt' = attempt + 1
            /\ pc' = "CALL_ISSUED"
            /\ error' = error
       ELSE /\ pc' = "ABORTED"
            /\ error' = "CallFailure"
            /\ UNCHANGED <<sleeps, attempt>>
    /\ UNCHANGED <<args, n_trials, mode, ii, ti, trial, rules, examples_text,
                   program, prompt, output, all_results, trial_of, task_results, fs,
                   files, console, skipped, summary_file, varied, chkvars, corpvars, timevars,
                   calls, retried>>

\* mutant of ScoreAndRecord: an empty output is not recorded
ScoreAndRecord_DropsEmpty ==
    /\ pc = "RETURNED"
    /\ LET result == Result(mode, CurIdea, CurUnit, output)
       IN  IF output = ""
           THEN UNCHANGED <<all_results, task_results, trial_of>>
           ELSE /\ all_results' = Append(all_results, result)
                /\ task_results' = IF mode = "comprehension" THEN task_results
                                   ELSE Append(task_results, result)
                /\ trial_of' = Append(trial_of, trial)
    /\ attempt' = 0 /\ sleeps' = <<>> /\ output' = ""
    /\ pc' = "SCORED"
    /\ UNCHANGED <<args, n_trials, mode, ii, ti, trial, rules,
                   examples_text, program, prompt, fs, files, console, error,
                   skipped, summary_file, varied, chkvars, corpvars, timevars,
                   calls, retried>>

\* mutant of ScoreAndRecord: the result is put at the head of all_results
ScoreAndRecord_Prepends ==
    /\ pc = "RETURNED"
    /\ LET result == Result(mode, CurIdea, CurUnit, output)
       IN  /\ all_results' = <<result>> \o all_results
           /\ task_results' = IF mode = "comprehension" THEN task_results
                              ELSE <<result>> \o task_results
    /\ trial_of' = <<trial>> \o trial_of
    /\ attempt' = 0 /\ sleeps' = <<>> /\ output' = ""
    /\ pc' = "SCORED"
    /\ UNCHANGED <<args, n_trials, mode, ii, ti, trial, rules,
                   examples_text, program, prompt, fs, files, console, error,
                   skipped, summary_file, varied, chkvars, corpvars, timevars,
                   calls, retried>>

\* the output is scored and the result appended to all_results; the locals of
\* call_haiku and run_test are gone
ScoreAndRecord ==
    /\ pc = "RETURNED"
    /\ IF mode # "comprehension" /\ GenerationRaises[<<CurUnit, output>>]
       THEN /\ pc' = "CRASHED"           \* the checker raised
            /\ error' = "ValueError"
            /\ UNCHANGED <<all_results, task_results, trial_of, attempt, sleeps, output>>
       ELSE /\ LET result == Result(mode, CurIdea, CurUnit, output)
               IN  /\ all_results' = Append(all_results, result)
                   /\ task_results' = IF mode = "comprehension" THEN task_results
                                      ELSE Append(task_results, result)
            /\ trial_of' = Append(trial_of, trial)
            /\ attempt' = 0 /\ sleeps' = <<>> /\ output' = ""
            /\ pc' = "SCORED"
            /\ error' = error
    /\ UNCHANGED <<args, n_trials, mode, ii, ti, trial, rules,
                   examples_text, program, prompt, fs, files, console,
                   skipped, summary_file, varied, chkvars, corpvars, timevars,
                   calls, retried>>

\* the trial's line is printed; the loop over trials goes on
NextTrial ==
    /\ pc = "SCORED"
    /\ trial' = trial + 1
    /\ pc' = "INIT"
    /\ UNCHANGED <<args, n_trials, mode, ii, ti, attempt, sleeps, rules, examples_text,
                   program, prompt, output, all_results, trial_of, task_results, fs,
                   files, console, error, skipped, summary_file, varied, chkvars, corpvars, timevars,
                   calls, retried>>

\* the loop over trials is over: the generation modes print the task's average
EndTrials ==
    /\ pc = "INIT"
    /\ trial > n_trials
    /\ IF mode # "comprehension" /\ Len(task_results) = 0
       THEN /\ pc' = "CRASHED"          \* sum(scores) / len(scores)
            /\ error' = "ZeroDivisionError"
            /\ ti' = ti
       ELSE /\ pc' = "task"
            /\ ti' = ti + 1
            /\ error' = error
    /\ UNCHANGED <<args, n_trials, mode, ii, trial, attempt, sleeps, rules,
                   examples_text, program, prompt, output, all_results, trial_of,
                   task_results, fs, files, console, skipped, summary_file, varied,
                   chkvars, corpvars, timevars,
                   calls, retried>>

\* mutant of Summary: the aggregation takes the entries out of the log it reads
Summary_DrainsLog ==
    /\ pc = "summary"
    /\ IF SummaryDivByZero(mode, all_results)
       THEN /\ pc' = "CRASHED"
            /\ error' = "ZeroDivisionError"
            /\ console' = console
       ELSE /\ pc' = "save"
            /\ console' = ConsoleSummary(mode, all_results)
            /\ error' = error
    /\ all_results' = IF all_results = <<>> THEN all_results ELSE Tail(all_results)
    /\ UNCHANGED <<args, n_trials, mode, ii, ti, trial, attempt, sleeps, rules,
                   examples_text, program, prompt, output, trial_of,
                   task_results, fs, files, skipped, summary_file, varied, chkvars, corpvars, timevars,
                   calls, retried>>

\* the summary tables of the run_* function are printed
Summary ==
    /\ pc = "summary"
    /\ IF SummaryDivByZero(mode, all_results)
       THEN /\ pc' = "CRASHED"
            /\ error' = "ZeroDivisionError"
            /\ console' = console
       ELSE /\ pc' = "save"
            /\ console' = ConsoleSummary(mode, all_results)
            /\ error' = error
    /\ UNCHANGED <<args, n_trials, mode, ii, ti, trial, attempt, sleeps, rules,
                   examples_text, program, prompt, output, all_results, trial_of,
                   task_results, fs, files, skipped, summary_file, varied, chkvars, corpvars, timevars,
                   calls, retried>>

\* json.dump(all_results) to the mode's results file; the run_* function returns
Save ==
    /\ pc = "save"
    /\ files' = [files EXCEPT ![mode] = [exists |-> "yes", results |-> all_results]]
    /\ pc' = "main"
    /\ UNCHANGED <<args, n_trials, mode, ii, ti, trial, attempt, sleeps, rules,
                   examples_text, program, prompt, output, all_results, trial_of,
                   task_results, fs, console, error, skipped, summary_file, varied,
                   chkvars, corpvars, timevars,
                   calls, retried>>

\* main: no mode is left; write_summary() if a test ran
Finish ==
    /\ pc = "main"
    /\ NextModes = {}
    /\ IF args # {}
       THEN \E old \in BOOLEAN :
               /\ files' = FilesRead(old)
               /\ summary_file' = write_summary(files')
       ELSE UNCHANGED <<files, summary_file>>
    /\ pc' = "exit"
    /\ UNCHANGED <<args, n_trials, mode, ii, ti, trial, attempt, sleeps, rules,
                   examples_text, program, prompt, output, all_results, trial_of,
                   task_results, fs, console, error, skipped, varied, chkvars, corpvars, timevars,
                   calls, retried>>

Next ==
    \/ StartMode \/ EnterIdea \/ EnterTask \/ BuildPrompt \/ IssueCall
    \/ AttemptSucceeds \/ AttemptFails \/ ScoreAndRecord \/ NextTrial
    \/ EndTrials \/ Summary \/ Save \/ Finish

Spec == Init /\ [][Next]_vars

\* an invocation that asks for two test modes
InitMain ==
    /\ args \in {S \in SUBSET ModeSet : Cardinality(S) = 2}
    /\ n_trials \in 0..(MaxTrials - 1)
    /\ mode = "" /\ pc = "main"
    /\ ii = 0 /\ ti = 0 /\ trial = 0
    /\ attempt = 0 /\ sleeps = <<>>
    /\ rules = "" /\ examples_text = "" /\ program = ""
    /\ prompt = "" /\ output = ""
    /\ all_results = <<>> /\ trial_of = <<>> /\ task_results = <<>>
    /\ fs = [k \in FsKeys |-> "?"]
    /\ files = [m \in ModeSet |-> UnknownFile]
    /\ console = NoConsole /\ summary_file = NoSummary
    /\ skipped = {} /\ error = "" /\ varied = 0
    /\ calls = 0 /\ retried = 0
    /\ ChkIdle
    /\ CorpIdle
    /\ TimeIdle

SpecMain == InitMain /\ [][Next]_vars

\* the single thread of control keeps running: every attempt against the
\* service returns or raises, and every other step is a step of the program
SpecFair == Spec /\ WF_vars(Next)

(***************************************************************************)
(* SpecCheck: one checker applied to one output text.                      *)
(***************************************************************************)
RunIdle ==
    /\ args = {} /\ n_trials = 0 /\ mode = "" /\ pc = "off"
    /\ ii = 0 /\ ti = 0 /\ trial = 0 /\ attempt = 0 /\ sleeps = <<>>
    /\ rules = "" /\ examples_text = "" /\ program = "" /\ prompt = "" /\ output = ""
    /\ all_results = <<>> /\ trial_of = <<>> /\ task_results = <<>>
    /\ fs = [k \in FsKeys |-> "?"]
    /\ files = [m \in ModeSet |-> UnknownFile]
    /\ console = NoConsole /\ summary_file = NoSummary
    /\ skipped = {} /\ error = "" /\ varied = 0
    /\ calls = 0 /\ retried = 0

InitCheck ==
    /\ RunIdle
    /\ CorpIdle
    /\ TimeIdle
    /\ \/ chk_kind = "generation" /\ chk_task \in TaskSet
       \/ chk_kind = "comprehension" /\ chk_task \in ExampleSet
    /\ chk_text \in OutputTexts(chk_task)
    /\ chk_features = <<>>
    /\ chk_score = ""
    /\ chk_pc = "input"

NextCheck == ScoreGeneration \/ ScoreComprehension

SpecCheck == InitCheck /\ [][NextCheck]_vars

(***************************************************************************)
(* SpecCorpus: strip_comments applied once and again to a raw text, and    *)
(* load_examples applied to a folder of example files.                     *)
(***************************************************************************)
\* pieces a raw text is assembled from: code, indented code, comments of the
\* notations, a blank line, and a last line without a line break
LinePieces ==
    << "f x\n", "  g y\r\n", "-- c\n", "  # c\n", "\t; c\f", "  \n", "a -- b" >>

RECURSIVE Concat(_)
Concat(q) == IF q = <<>> THEN "" ELSE Head(q) \o Concat(Tail(q))

RawTexts ==
    {Concat(q) : q \in UNION {[1..n -> SeqSet(LinePieces)] : n \in 0..MaxSrcLines}}

ExtSet == {".ilo", ".py", ".yaml", ".ast", ".json"}

\* the files a folder may hold, the first NumFiles of them
FilePriority ==
    << "01-simple-function.ilo", "02-with-dependencies.ilo", "03-data-transform.ilo",
       "04-tool-interaction.ilo", "05-workflow.ilo", "01-simple-function.py",
       "01-variant.ilo" >>
FileNames == {FilePriority[i] : i \in 1..NumFiles}

\* the content of a file: a program with its comments, or only blank lines
RawContent(name, kind) ==
    IF kind = "code" THEN "-- note\n# note\n\n  run " \o name \o "\n" ELSE "\n  \n"

Folders ==
    UNION {{[n \in D |-> RawContent(n, k[n])] : k \in [D -> {"code", "blank"}]} :
              D \in SUBSET FileNames}

LoadIdeas == {"idea1", "python-baseline"}

InitCorpus ==
    /\ RunIdle
    /\ ChkIdle
    /\ TimeIdle
    /\ \/ /\ cp_kind = "normalize"
          /\ cp_ext \in ExtSet
          /\ cp_text \in RawTexts
          /\ cp_idea = "" /\ cp_folder = <<>>
       \/ /\ cp_kind = "load"
          /\ cp_idea \in LoadIdeas
          /\ cp_folder \in Folders
          /\ cp_ext = "" /\ cp_text = ""
    /\ cp_once = "" /\ cp_twice = "" /\ cp_loaded = ""
    /\ cp_pc = "input"

\* strip_comments is applied to the raw text
Normalize ==
    /\ cp_kind = "normalize" /\ cp_pc = "input"
    /\ cp_once' = strip_comments(cp_text, cp_ext)
    /\ cp_pc' = "once"
    /\ UNCHANGED <<cp_kind, cp_ext, cp_text, cp_twice, cp_idea, cp_folder, cp_loaded,
                   runvars, chkvars, timevars>>

\* strip_comments is applied to its own result
NormalizeAgain ==
    /\ cp_kind = "normalize" /\ cp_pc = "once"
    /\ cp_twice' = strip_comments(cp_once, cp_ext)
    /\ cp_pc' = "twice"
    /\ UNCHANGED <<cp_kind, cp_ext, cp_text, cp_once, cp_idea, cp_folder, cp_loaded,
                   runvars, chkvars, timevars>>

\* load_examples(idea) reads the folder
LoadFirst ==
    /\ cp_kind = "load" /\ cp_pc = "input"
    /\ cp_loaded' = load_examples_in(cp_folder, cp_idea)
    /\ cp_pc' = "loaded"
    /\ UNCHANGED <<cp_kind, cp_ext, cp_text, cp_once, cp_twice, cp_idea, cp_folder,
                   runvars, chkvars, timevars>>

NextCorpus == Normalize \/ NormalizeAgain \/ LoadFirst

SpecCorpus == InitCorpus /\ [][NextCorpus]_vars

(***************************************************************************)
(* SpecCall: one call of call_haiku on a millisecond clock.  An attempt    *)
(* takes some latency and returns or raises; a backoff sleep takes its     *)
(* full duration.                                                          *)
(***************************************************************************)
\* time.sleep takes seconds, the clock counts milliseconds
MsPerSecond == 1000

\* the durations an attempt may take
Latencies == {k * LatencyStep : k \in 0..MaxLatency}

\* round(elapsed, 2): hundredths of a second, an exact tie going to the even one
Round2(ms) ==
    LET q == ms \div 10
        r == ms % 10
    IN  IF r < 5 THEN q
        ELSE IF r > 5 THEN q + 1
        ELSE IF q % 2 = 0 THEN q ELSE q + 1

InitCall ==
    /\ RunIdle
    /\ ChkIdle
    /\ CorpIdle
    /\ tm_pc = "enter"
    /\ tm_attempt = 0
    /\ tm_clock \in Latencies
    /\ tm_entry = tm_clock
    /\ tm_start = 0
    /\ tm_elapsed = -1 /\ tm_recorded = -1
    /\ tm_failed = 0 /\ tm_slept = 0

\* mutant of StartAttempt: the start time is taken at the first attempt only
StartAttempt_Once ==
    /\ tm_pc = "enter"
    /\ tm_start' = IF tm_attempt = 0 THEN tm_clock ELSE tm_start
    /\ tm_pc' = "try"
    /\ UNCHANGED <<tm_attempt, tm_clock, tm_elapsed, tm_recorded, tm_entry, tm_failed,
                   tm_slept, runvars, chkvars, corpvars>>

\* top of the try block: start = time.time()
StartAttempt ==
    /\ tm_pc = "enter"
    /\ tm_start' = tm_clock
    /\ tm_pc' = "try"
    /\ UNCHANGED <<tm_attempt, tm_clock, tm_elapsed, tm_recorded, tm_entry, tm_failed,
                   tm_slept, runvars, chkvars, corpvars>>

\* the service answers: elapsed = time.time() - start; return text, elapsed
ServiceReturns ==
    /\ tm_pc = "try"
    /\ \E d \in Latencies : tm_clock' = tm_clock + d
    /\ tm_elapsed' = tm_clock' - tm_start
    /\ tm_pc' = "returned"
    /\ UNCHANGED <<tm_attempt, tm_start, tm_recorded, tm_entry, tm_failed, tm_slept,
                   runvars, chkvars, corpvars>>

\* the service raises: sleep 2 ** attempt seconds and go on, or re-raise
ServiceRaises ==
    /\ tm_pc = "try"
    /\ \E d \in Latencies :
          /\ tm_failed' = tm_failed + d
          /\ IF tm_attempt < MaxAttempts - 1
             THEN LET wait == Pow2(tm_attempt) * MsPerSecond
                  IN  /\ tm_clock' = tm_clock + d + wait
                      /\ tm_slept' = tm_slept + wait
                      /\ tm_attempt' = tm_attempt + 1
                      /\ tm_pc' = "enter"
             ELSE /\ tm_clock' = tm_clock + d
                  /\ tm_pc' = "raised"
                  /\ UNCHANGED <<tm_slept, tm_attempt>>
    /\ UNCHANGED <<tm_start, tm_elapsed, tm_recorded, tm_entry, runvars, chkvars, corpvars>>

\* the caller builds the result: "elapsed_s": round(elapsed, 2)
RecordElapsed ==
    /\ tm_pc = "returned"
    /\ tm_recorded' = Round2(tm_elapsed)
    /\ tm_pc' = "recorded"
    /\ UNCHANGED <<tm_attempt, tm_clock, tm_start, tm_elapsed, tm_entry, tm_failed,
                   tm_slept, runvars, chkvars, corpvars>>

NextCall == StartAttempt \/ ServiceReturns \/ ServiceRaises \/ RecordElapsed

SpecCall == InitCall /\ [][NextCall]_vars

(***************************************************************************)
(* Properties.                                                             *)
(***************************************************************************)
\* the place of a result in the loops: (idea, task or example, trial)
PosIn(q, x) == CHOOSE k \in DOMAIN q : q[k] = x
IdeaPos(idea) == LET q == IdeasOf(mode) IN PosIn(q, idea)
UnitPos(unit) == LET q == UnitsOf(mode) IN PosIn(q, unit)
LogPos(k) == <<IdeaPos(all_results[k].idea), UnitPos(UnitOf(all_results[k])), trial_of[k]>>
LexLess(a, b) ==
    \/ a[1] < b[1]
    \/ a[1] = b[1] /\ a[2] < b[2]
    \/ a[1] = b[1] /\ a[2] = b[2] /\ a[3] < b[3]
InCall == pc \in {"CALL_ISSUED", "RETURNED", "ABORTED"}

\* C1: one call makes at most 5 attempts; the waits after the 1st, 2nd, 3rd and
\* 4th failed attempt are 1, 2, 4 and 8 seconds; the 5th failure is raised to
\* the caller without a wait.
C1_RetrySchedule ==
    /\ attempt \in 0..4
    /\ InCall => sleeps = SubSeq(<<1, 2, 4, 8>>, 1, attempt)
    /\ pc = "ABORTED" => attempt = 4 /\ sleeps = <<1, 2, 4, 8>> /\ error = "CallFailure"

C1_Witness == pc = "ABORTED" /\ sleeps = <<1, 2, 4, 8>> /\ error = "CallFailure"

\* C2: an attempt that succeeds ends the call at once with that attempt's
\* output: no wait is added, no further attempt is made, and the next step is
\* the scoring of the returned text.
C2_SuccessReturnsAtOnce ==
    /\ [](pc = "RETURNED" => Len(sleeps) = attempt /\ output \in RunTextSet)
    /\ [][ /\ (pc = "CALL_ISSUED" /\ pc' = "RETURNED")
                => (attempt' = attempt /\ sleeps' = sleeps)
           /\ pc = "RETURNED"
                => (pc' = "SCORED" /\ Len(all_results') = Len(all_results) + 1
                    /\ all_results'[Len(all_results')].output = output) ]_vars

C2_Witness == pc = "RETURNED" /\ attempt = 3 /\ sleeps = <<1, 2, 4>>

\* C3: when all 5 attempts of a call fail the run halts: the failure is not
\* turned into a result, nothing is recorded for that combination's trial or
\* for any later one, and no further call is issued.
C3_ExhaustedCallHaltsRun ==
    /\ [](pc = "ABORTED" =>
            \A k \in DOMAIN all_results : LexLess(LogPos(k), <<ii, ti, trial>>))
    /\ [][ /\ (pc = "CALL_ISSUED" /\ attempt = 4 /\ pc' # "RETURNED")
                => (pc' = "ABORTED" /\ all_results' = all_results)
           /\ pc = "ABORTED" => FALSE ]_vars

C3_Witness == pc = "ABORTED" /\ trial = 2 /\ Len(all_results) >= 2

\* C4: a trial goes INIT -> PROMPT_BUILT -> CALL_ISSUED and from there to
\* SCORED (through the returned output) or to ABORTED, which only the failure
\* of the last attempt reaches; a returned call always yields exactly one
\* result, appended to the log, for the trial's idea and task, and the log
\* changes at no other step of a trial.
C4_TrialStateMachine ==
    /\ [](pc = "RETURNED" => ENABLED ScoreAndRecord)
    /\ [][ /\ (pc = "INIT" /\ trial <= n_trials) => pc' = "PROMPT_BUILT"
           /\ pc = "PROMPT_BUILT" => pc' = "CALL_ISSUED"
           /\ pc = "CALL_ISSUED" => pc' \in {"CALL_ISSUED", "RETURNED", "ABORTED"}
           /\ pc' = "ABORTED" => (pc = "CALL_ISSUED" /\ attempt = 4)
           /\ pc' = "SCORED" => pc = "RETURNED"
           /\ pc = "RETURNED"
                => /\ pc' = "SCORED"
                   /\ Len(all_results') = Len(all_results) + 1
                   /\ SubSeq(all_results', 1, Len(all_results)) = all_results
                   /\ all_results'[Len(all_results')].idea = CurIdea
                   /\ UnitOf(all_results'[Len(all_results')]) = CurUnit
                   /\ all_results'[Len(all_results')].output = output
           /\ pc \in {"INIT", "PROMPT_BUILT", "CALL_ISSUED", "SCORED", "ABORTED"}
                => all_results' = all_results ]_vars

C4_Witness == pc = "SCORED" /\ Len(all_results) = 3 /\ all_results[3].output = ""

\* C5: the results of a run are logged in the lexicographic order of
\* (idea, task or example, trial), whatever the retries of each call: along
\* the log the triples increase strictly, LexLess being a strict total order,
\* so of any two results the earlier in the log has the smaller triple.
C5_LogOrder ==
    \A i \in 1..(Len(all_results) - 1) :
       LET a == LogPos(i)
           b == LogPos(i + 1)
       IN  LexLess(a, b)

C5_Witness ==
    /\ pc = "exit" /\ mode = "examples" /\ n_trials = MaxTrials
    /\ Len(all_results) = NumIdeas * NumTasks * MaxTrials

\* the predicate names written in the source for each task and example
PredicateNames(name) ==
    CASE name = "workflow" ->
           {"named_transfer", "three_inputs", "calls_withdraw", "calls_deposit",
            "handles_withdraw_err", "handles_deposit_err", "compensates_refund",
            "refund_after_deposit", "returns_receipt", "receipt_has_both_ids"}
      [] name = "data_pipeline" ->
           {"named_enrich", "takes_orders", "iterates", "calls_lookup",
            "handles_lookup_fail", "tier_check", "calculates_discount", "returns_list",
            "includes_final_total", "includes_customer_data"}
      [] name = "decision_logic" ->
           {"named_approve", "four_inputs", "credit_check", "debt_ratio", "max_loan",
            "three_rejections", "rate_tiers", "rate_values", "monthly_calc",
            "returns_approved"}
      [] name = "api_orchestration" ->
           {"named_deploy", "three_inputs", "calls_health", "calls_snapshot",
            "calls_rollout", "stores_snapshot_id", "handles_rollout_fail",
            "rollback_on_fail", "post_deploy_health", "returns_success"}
      [] name = "04-tool-interaction" ->
           {"mentions_notify", "mentions_user_id_input", "mentions_message_input",
            "calls_get_user", "calls_send_email", "checks_verified", "handles_errors",
            "returns_result"}
      [] name = "05-workflow" ->
           {"mentions_checkout", "mentions_payment_input", "mentions_items_input",
            "calls_reserve", "calls_charge", "compensates_release", "handles_errors",
            "returns_result"}

\* the part of a score string after the "/"
TotalOf(score) == SubSeq(score, index(score, "/") + 2, Len(score))
Checked == chk_pc = "checked"

\* C6: whatever the output text, the checker's mapping has exactly the task's
\* fixed predicate names as keys, and the total of the score string is the
\* number of those names; so all results of a task in a run have one total.
C6_FixedKeySet ==
    /\ Checked =>
          /\ DOMAIN chk_features = PredicateNames(chk_task)
          /\ TotalOf(chk_score) = IntStr(Cardinality(PredicateNames(chk_task)))
    /\ \A k \in DOMAIN all_results :
          /\ DOMAIN all_results[k].features = PredicateNames(UnitOf(all_results[k]))
          /\ \A j \in DOMAIN all_results :
                UnitOf(all_results[j]) = UnitOf(all_results[k])
                   => TotalOf(all_results[j].score) = TotalOf(all_results[k].score)

C6_Witness ==
    /\ Checked /\ chk_task = "workflow"
    /\ SumTrue(chk_features) \in 1..9
    /\ chk_text # ""

\* C7: no summary fails on a row or cell without recorded trials, a run with 0
\* trials per combination included, and such a row or cell is never shown as
\* an average.
C7_SummariesTolerateNoData ==
    /\ error # "ZeroDivisionError"
    /\ console.printed =>
          /\ \A i \in DOMAIN console.rows :
                ByIdea(all_results, i) = <<>> => console.rows[i].kind # "avg"
          /\ \A c \in DOMAIN console.cells :
                ByIdeaUnit(all_results, c[1], c[2]) = <<>> => console.cells[c].kind # "avg"
    /\ summary_file.written =>
          \A m \in ModeSet :
             summary_file.tables[m].present =>
                \A c \in DOMAIN summary_file.tables[m].cells :
                   ByIdeaUnit(files[m].results, c[1], c[2]) = <<>>
                      => summary_file.tables[m].cells[c].kind # "avg"

\* the corpus items the prompt of the mode is built from
NeededItems(m, unit) ==
    CASE m = "examples" -> {"01"}
      [] m = "rules" -> {"README"}
      [] m = "full" -> {"README", "any"}
      [] m = "comprehension" -> {unit}
InTrial == pc \in {"PROMPT_BUILT", "CALL_ISSUED", "RETURNED", "SCORED"}

\* C8: in every mode, a notation whose example text or specification text is
\* missing gets no generation call and no result: a trial is under way only
\* with all the texts of its prompt present, and every logged result belongs
\* to a notation whose texts were found.
C8_MissingDataIsSkipped ==
    /\ InTrial => \A x \in NeededItems(mode, CurUnit) : fs[<<CurIdea, x>>] = "yes"
    /\ \A k \in DOMAIN all_results :
          \A x \in NeededItems(mode, UnitOf(all_results[k])) :
             fs[<<all_results[k].idea, x>>] = "yes"

\* the decision_logic case of C9: "reject" three times and the three rate literals
C9_Case ==
    /\ Checked /\ chk_task = "decision_logic"
    /\ count(lower(chk_text), "reject") >= 3
    /\ In("3.5", chk_text) /\ In("5.0", chk_text) /\ In("7.5", chk_text)
C9_OthersTrue ==
    \A k \in PredicateNames("decision_logic") \ {"three_rejections", "rate_values", "rate_tiers"} :
       chk_features[k]
C9_Scores(score) ==
    C9_Case =>
       /\ chk_features["three_rejections"] /\ chk_features["rate_values"]
       /\ ~In("650", chk_text) =>
             /\ ~chk_features["rate_tiers"]
             /\ C9_OthersTrue => chk_score = score

\* C9 as the specification words it: ... and when every other predicate of the
\* task is true the resulting score is 8/10.
C9_ScoreEightOfTen == C9_Scores("8/10")

\* C9: for decision_logic, a text with "reject" three times and the literals
\* "3.5", "5.0", "7.5" makes three_rejections and rate_values true; without
\* "650" rate_tiers is false; and with every other predicate true the score
\* is 9/10, rate_tiers being the only one of the 10 predicates that is false.
C9_ScoreNineOfTen == C9_Scores("9/10")

C9_Witness == C9_Case /\ ~In("650", chk_text) /\ C9_OthersTrue

\* C10: for the empty output text every predicate of every checker is false,
\* under the unchanged key set of the task, and the score is 0/n.
C10_EmptyOutputScoresZero ==
    /\ (Checked /\ chk_text = "") =>
          /\ DOMAIN chk_features = PredicateNames(chk_task)
          /\ \A k \in DOMAIN chk_features : ~chk_features[k]
          /\ chk_score = "0/" \o IntStr(Cardinality(PredicateNames(chk_task)))
    /\ \A k \in DOMAIN all_results :
          all_results[k].output = "" =>
             /\ \A x \in PredicateNames(UnitOf(all_results[k])) : ~all_results[k].features[x]
             /\ all_results[k].score
                  = "0/" \o IntStr(Cardinality(PredicateNames(UnitOf(all_results[k]))))

C10_Witness == Checked /\ chk_text = "" /\ chk_task = "decision_logic" /\ chk_score = "0/10"

\* C11: every predicate is a total function of the text: no checker raises on
\* any output text and each predicate evaluates to a boolean; the positions of
\* "refund" and "deposit" are only compared when both words occur in the text.
C11_PredicatesTotal ==
    /\ chk_pc # "raised"
    /\ Checked => \A k \in DOMAIN chk_features : chk_features[k] \in BOOLEAN
    /\ chk_kind = "generation" =>
          LET text == lower(chk_text)
              r == refund_after_deposit(text)
          IN  /\ ~r.raised
              /\ (IndexRaises(text, "refund") \/ IndexRaises(text, "deposit")) => ~r.value
    /\ \A k \in DOMAIN GenerationRaises : ~GenerationRaises[k]

C11_Witness ==
    /\ Checked /\ chk_task = "workflow"
    /\ In("refund", lower(chk_text)) /\ ~In("deposit", lower(chk_text))
    /\ ~chk_features["refund_after_deposit"]

\* is the sequence a a subsequence of the sequence b
RECURSIVE IsSubseq(_, _)
IsSubseq(a, b) ==
    IF a = <<>> THEN TRUE
    ELSE IF b = <<>> THEN FALSE
    ELSE IF Head(a) = Head(b) THEN IsSubseq(Tail(a), Tail(b))
    ELSE IsSubseq(a, Tail(b))

\* C12: strip_comments is idempotent, for every text and every extension, with
\* or without a comment prefix; the lines it keeps are a subsequence of the
\* lines of its input, each with its content unchanged, leading whitespace
\* included.
C12_NormalizeIdempotent ==
    /\ cp_pc = "twice" => cp_twice = cp_once
    /\ cp_pc \in {"once", "twice"} =>
          /\ IsSubseq(splitlines(cp_once), splitlines(cp_text))
          /\ \A i \in DOMAIN splitlines(cp_once) :
                LET line == splitlines(cp_once)[i]
                IN  /\ strip(line) # ""
                    /\ COMMENT_PREFIXES(cp_ext) # ""
                          => ~startswith(strip(line), COMMENT_PREFIXES(cp_ext))

C12_Witness ==
    /\ cp_pc = "twice" /\ cp_ext = ".ilo"
    /\ cp_text = "-- c\n  g y\r\n  \n"
    /\ cp_once = "  g y"
    /\ cp_twice = "  g y"

\* the files of a folder whose names start with "01-"
FirstFiles(folder) ==
    [n \in {x \in DOMAIN folder : startswith(x, "01-")} |-> folder[n]]

\* C13: load_examples returns text of the 01-prefixed files only: neither the
\* name nor the program of a file numbered 02..05 occurs in it, and the text
\* is the one the folder without those files gives, whatever the files hold.
C13_FirstOnly ==
    cp_pc = "loaded" =>
       /\ \A n \in DOMAIN cp_folder : ~startswith(n, "01-") => ~In(n, cp_loaded)
       /\ cp_loaded = load_examples_in(FirstFiles(cp_folder), cp_idea)

C13_Witness ==
    /\ cp_pc = "loaded" /\ cp_idea = "idea1"
    /\ \A i \in 1..5 : /\ FilePriority[i] \in DOMAIN cp_folder
                       /\ In("run", cp_folder[FilePriority[i]])
    /\ cp_loaded = "Example (01-simple-function.ilo):\n# note\n  run 01-simple-function.ilo"

\* the run_* function is over: returned, or ended by an exception
RunEnded == mode # "" /\ pc \in {"main", "exit", "ABORTED", "CRASHED"}

\* C14: after any run, one ended by a fatal call failure included, every result
\* the run created is in the persisted output, at its place in the run log.
C14_PersistedHoldsEveryResult ==
    RunEnded =>
       \A k \in DOMAIN all_results :
          /\ files[mode].exists = "yes"
          /\ k \in DOMAIN files[mode].results
          /\ files[mode].results[k] = all_results[k]

\* C15: the retry budget of each generation call is independent: whatever the
\* earlier calls of the run spent, the step that issues a call starts it at
\* attempt 0 with no sleep taken, a call gives up only after five attempts of
\* its own, and the first backoff delay of a call is 1 second
C15_IndependentRetryBudget ==
    /\ [][pc = "PROMPT_BUILT" =>
            pc' = "CALL_ISSUED" /\ attempt' = 0 /\ sleeps' = <<>>]_vars
    /\ [](pc = "CALL_ISSUED" => attempt < MaxAttempts /\ Len(sleeps) = attempt)
    /\ [](pc = "ABORTED" => attempt = MaxAttempts - 1 /\ sleeps = <<1, 2, 4, 8>>)
    /\ [](InCall /\ sleeps # <<>> => sleeps[1] = 1)

\* a call uses its full budget of five attempts in a run where an earlier call
\* had already returned after failed attempts
C15_Witness ==
    /\ pc = "ABORTED"
    /\ retried >= 1
    /\ attempt = MaxAttempts - 1
    /\ sleeps = <<1, 2, 4, 8>>

\* C16: trials execute strictly sequentially: at most one generation call is in
\* flight (the calls issued in the run are the recorded results plus at most the
\* one call in progress), and a prompt is built and a call issued only when
\* every call issued before has returned and its result has been recorded
C16_TrialsSequential ==
    /\ [](calls = Len(all_results) + (IF InCall THEN 1 ELSE 0))
    /\ [][pc' = "PROMPT_BUILT" =>
            pc = "INIT" /\ calls = Len(all_results) /\ attempt = 0 /\ sleeps = <<>>]_vars
    /\ [][pc' = "CALL_ISSUED" /\ pc # "CALL_ISSUED" =>
            pc = "PROMPT_BUILT" /\ calls = Len(all_results) /\ calls' = calls + 1]_vars
    /\ [][pc = "CALL_ISSUED" => all_results' = all_results /\ prompt' = prompt]_vars

\* the second call of a run is in flight, after the first one retried, slept,
\* returned and was recorded
C16_Witness ==
    /\ pc = "CALL_ISSUED"
    /\ calls = 2
    /\ Len(all_results) = 1
    /\ retried = 1
    /\ attempt = 0

\* a step that leaves the run log as it is or appends one result at its end
LogKeptOrAppended ==
    \/ all_results' = all_results
    \/ /\ pc = "RETURNED"
       /\ Len(all_results') = Len(all_results) + 1
       /\ SubSeq(all_results', 1, Len(all_results)) = all_results

\* a step of the aggregation: summary tables, save, final report
AggregationStep == pc \in {"summary", "save", "main"}

\* C17: the run log is append-only and its entries are immutable: every step
\* leaves the log unchanged or appends exactly one result at its end (the step
\* that records a returned call), no entry is modified, removed or reordered,
\* and the summary, save and final report steps leave the log unchanged
C17_LogAppendOnly ==
    /\ [][LogKeptOrAppended]_vars
    /\ [][AggregationStep => all_results' = all_results]_vars

\* the summary of a run has been printed from a log of at least two results and
\* the log has been saved
C17_Witness ==
    /\ pc = "main"
    /\ Len(all_results) >= 2
    /\ console # NoConsole
    /\ files[mode].exists = "yes"
    /\ files[mode].results = all_results

\* the heading the template puts before a section, "" where it has none
SectionHeading(m, section) ==
    CASE m = "full" /\ section = "rules" -> "## Language Specification"
      [] m = "full" /\ section = "examples" -> "## Examples"
      [] OTHER -> ""

\* the source text of a section of the prompt under assembly
SectionText(section) == IF section = "rules" THEN rules ELSE examples_text

\* the sections of the template of a mode
SectionsOf(m) ==
    CASE m = "examples" -> {"examples"}
      [] m = "rules" -> {"rules"}
      [] m = "full" -> {"rules", "examples"}
      [] OTHER -> {}

\* C18: prompt assembly omits a section when its source text is empty: the
\* assembled prompt carries no heading of a section whose text (examples or
\* specification) is empty, and with every text present it is the fixed
\* template with the texts interpolated
C18_EmptySectionOmitted ==
    pc = "PROMPT_BUILT" =>
       /\ \A section \in SectionsOf(mode) :
             (SectionText(section) = "" /\ SectionHeading(mode, section) # "")
                => ~In(SectionHeading(mode, section), prompt)
       /\ (\A section \in SectionsOf(mode) : SectionText(section) # "") =>
             prompt = CASE mode = "examples" -> TEST_PROMPT(examples_text, TaskDesc(CurUnit))
                        [] mode = "rules" -> RULES_PROMPT(rules, TaskDesc(CurUnit))
                        [] mode = "full" -> FULL_PROMPT(rules, examples_text, TaskDesc(CurUnit))
                        [] OTHER -> prompt

\* the number of predicate keys of a result (its total)
NumKeys(r) == Cardinality(DOMAIN r.features)

\* every result of the list has the total `denom`
SameTotal(results, denom) == \A k \in DOMAIN results : NumKeys(results[k]) = denom

\* every average of a table (sum over n results) is at most its denominator
AveragesWithin(table) ==
    /\ \A i \in DOMAIN table.rows :
          table.rows[i].kind = "avg" => table.rows[i].sum <= table.rows[i].n * table.denom
    /\ \A k \in DOMAIN table.cells :
          table.cells[k].kind = "avg" => table.cells[k].sum <= table.cells[k].n * table.denom

\* C19: the denominator reported with the average scores of a summary (the
\* fixed 10 of the generation summaries, max_score of the comprehension
\* summary) equals the total of every result aggregated in it, in the console
\* summary of a run and in each table of the summary file
C19_DenominatorIsTotal ==
    /\ console.printed =>
          /\ console.denom = Denominator(mode)
          /\ SameTotal(all_results, console.denom)
          /\ AveragesWithin(console)
    /\ summary_file.written =>
          \A m \in ModeSet :
             summary_file.tables[m].present =>
                /\ summary_file.tables[m].denom = Denominator(m)
                /\ SameTotal(files[m].results, summary_file.tables[m].denom)
                /\ AveragesWithin(summary_file.tables[m])

\* the comprehension summary has been printed over results of both examples and
\* the summary file has a table of it
C19_Witness ==
    /\ pc = "exit"
    /\ mode = "comprehension"
    /\ console.printed
    /\ \E j, k \in DOMAIN all_results : all_results[j].example # all_results[k].example
    /\ summary_file.written
    /\ summary_file.tables["comprehension"].present

\* the positions of a text at which an occurrence of the word starts
Occurrences(t, w) ==
    {i \in 1..(Len(t) - Len(w) + 1) : SubSeq(t, i, i + Len(w) - 1) = w}

\* some occurrence of word a lies after some occurrence of word b
OccursAfter(t, a, b) ==
    \E i \in Occurrences(t, b) : \E j \in Occurrences(t, a) : j > i

\* C20: the workflow predicate refund_after_deposit is true exactly when the
\* lowercased output text contains an occurrence of "refund" positioned after
\* an occurrence of "deposit", and false otherwise (either word absent included)
C20_RefundAfterSomeDeposit ==
    (Checked /\ chk_kind = "generation" /\ chk_task = "workflow") =>
       (chk_features["refund_after_deposit"]
           <=> OccursAfter(lower(chk_text), "refund", "deposit"))

\* the predicate map the checker of a logged result gives for its stored output
Rescored(r) ==
    IF r.test_type = "comprehension"
    THEN ComprehensionTable[<<r.example, r.output>>]
    ELSE GenerationTable[<<r.task, r.output>>]

\* C21: every result of the run log is self-consistent: its predicate map is
\* the checker of its task (or example) applied to the lowercased stored
\* output, and its score string is "k/n" with k the number of true values and
\* n the number of keys of that map, 0 <= k <= n
C21_ResultSelfConsistent ==
    \A i \in DOMAIN all_results :
       LET r == all_results[i]
           k == SumTrue(r.features)
           n == Cardinality(DOMAIN r.features)
       IN  /\ r.features = Rescored(r)
           /\ r.score = IntStr(k) \o "/" \o IntStr(n)
           /\ 0 <= k /\ k <= n
           /\ DOMAIN r.features = PredicateNames(UnitOf(r))

\* the log holds a result of a text with capital letters scoring above zero
\* and a result of the empty text scoring zero
C21_Witness ==
    /\ \E i \in DOMAIN all_results :
          /\ all_results[i].output = RunTexts[1]
          /\ lower(RunTexts[1]) # RunTexts[1]
          /\ SumTrue(all_results[i].features) > 0
    /\ \E i \in DOMAIN all_results :
          /\ all_results[i].output = ""
          /\ SumTrue(all_results[i].features) = 0

\* C22: the elapsed time of a result covers the successful attempt only: what
\* call_haiku returns is the clock at the return minus the clock at the start
\* of the last attempt, so the time of the call is the elapsed time plus the
\* time inside the failed attempts plus the backoff sleeps, none of which is
\* in it; the result records that elapsed time rounded to hundredths
C22_ElapsedOfLastAttempt ==
    /\ tm_pc \in {"returned", "recorded"} =>
          /\ tm_elapsed = tm_clock - tm_start
          /\ tm_elapsed \in Latencies
          /\ tm_clock - tm_entry = tm_failed + tm_slept + tm_elapsed
    /\ tm_pc = "recorded" =>
          /\ tm_recorded = Round2(tm_elapsed)
          /\ 10 * tm_recorded - tm_elapsed \in -5..5
    /\ tm_pc \notin {"returned", "recorded"} => tm_elapsed = -1 /\ tm_recorded = -1

\* a result is recorded for a call whose third attempt returned after two
\* failed attempts that took time and two sleeps
C22_Witness ==
    /\ tm_pc = "recorded"
    /\ tm_attempt = 2
    /\ tm_failed > 0
    /\ tm_slept = 3 * MsPerSecond
    /\ tm_elapsed > 0
    /\ tm_recorded = 1

\* the run is over: main returned or exited, or an exception ended the process
RunOver == pc \in {"exit", "ABORTED", "CRASHED"}

RunCompleted == mode # "" /\ pc = "exit" /\ error = ""

\* C24: in each test mode a run that completes without a fatal failure has
\* recorded exactly as many results, and made exactly as many successful
\* calls, as the "Total API calls" figure announced at its head, also when a
\* notation lacks an example file or a specification
C24_AnnouncedTotalIsMade ==
    RunCompleted =>
       /\ Len(all_results) = total_tests(mode, n_trials)
       /\ calls = total_tests(mode, n_trials)

\* the modes of the invocation that come after the current one
LaterModes == {Modes[k] : k \in NextModes}

\* C25: results are persisted only after the last trial of a test mode: a
\* results file changes only at the save step that follows the summary of the
\* mode (or when the final report reads it) and the summary file only in the
\* final report; when a mode ends with a fatal call failure its results file
\* and the summary file are as they were, nothing of the partial log is
\* written, no further step is taken and no later mode is started
C25_NothingPersistedOnFailure ==
    /\ [](pc = "ABORTED" =>
            /\ files[mode] = UnknownFile
            /\ summary_file = NoSummary
            /\ \A m \in LaterModes : files[m] = UnknownFile)
    /\ [][pc # "ABORTED"]_vars
    /\ [][files' # files => pc \in {"save", "main"}]_vars
    /\ [][summary_file' # summary_file => pc = "main" /\ NextModes = {}]_vars
    /\ [][mode' # mode => pc = "main" /\ error = ""]_vars

\* the first of two modes ended with a fatal call failure after results had
\* been recorded
C25_Witness ==
    /\ pc = "ABORTED"
    /\ all_results # <<>>
    /\ LaterModes # {}

====
